---- MODULE Spec2Model ----
(***************************************************************************)
(* sconv (src/main.cpp): read a byte stream, convert every chunk from      *)
(* UTF-8 to WCHAR_T with iconv, write the result to stdout or to a         *)
(* temporary file that is renamed onto the -o path at the end.             *)
(*                                                                         *)
(* The model follows main() statement by statement.  Every system or       *)
(* library call that can fail is one action whose result is chosen         *)
(* nondeterministically; a throw is taken together with the catch block    *)
(* that prints the message, since nothing runs between the two.            *)
(*                                                                         *)
(* Platform facts fixed here: wchar_t is 4 bytes, little-endian (glibc on  *)
(* x86/arm64); getopt_long runs in its default (permuting) mode.           *)
(* The name mkstemp picks is taken to differ from the -o path.             *)
(***************************************************************************)
EXTENDS Integers, Sequences, FiniteSets, TLC

\* ---------------------------------------------------------------- bounds
\* longest command line (arguments after argv[0])
MaxArgs == 3
\* most bytes the input stream delivers in one run
MaxLen == 3
\* stands for buf_sz-1 = 4095, the third argument of read() (main.cpp:124)
ChunkMax == 2

\* sizeof(wchar_t)
WCharSize == 4

\* the command-line words the model draws argv from: the two recognised
\* options, the separator, an unrecognised option and a plain word
Tokens == {"-o", "--help", "--", "-x", "f"}

\* the bytes the input stream is made of: 'A', and the two bytes of U+00E9;
\* 0xA9 on its own, or 0xC3 without its continuation, is malformed input
Bytes == {65, 195, 169}

\* ------------------------------------------------------------- utilities
Range(s) == {s[i] : i \in 1..Len(s)}

Min(a, b) == IF a < b THEN a ELSE b

RECURSIVE Pow(_, _)
Pow(b, e) == IF e = 0 THEN 1 ELSE b * Pow(b, e - 1)

SeqsUpTo(S, n) == UNION {[1..k -> S] : k \in 0..n}

\* ------------------------------------------------------------ files
NoFile == [exists |-> FALSE, content |-> <<>>, mode |-> {}]

\* a file that was at the -o path before the run
OrigFile == [exists |-> TRUE, content |-> <<79, 82, 73, 71, 10>>,
             mode |-> {"S_IRUSR", "S_IWUSR", "S_IRGRP", "S_IROTH"}]

\* mkstemp creates the file empty with mode 0600
FreshTemp == [exists |-> TRUE, content |-> <<>>, mode |-> {"S_IRUSR", "S_IWUSR"}]

S_IRWXU == {"S_IRUSR", "S_IWUSR", "S_IXUSR"}

\* chmod(tmpfile, S_IRWXU|S_IRGRP|S_IROTH)
PublishModeNoExec == {"S_IRUSR", "S_IWUSR"} \cup {"S_IRGRP"} \cup {"S_IROTH"}
PublishMode == S_IRWXU \cup {"S_IRGRP"} \cup {"S_IROTH"}

\* ----------------------------------------------------- parse_args / getopt
\* strcmp("help", long_options[option_index].name) == 0
IsHelpNever(name) == FALSE
IsHelp(name) == name = "help"

\* getopt_long(argc, argv, "o:", long_options, ...) over the whole command
\* line, as the while(1) loop of parse_args drives it.  i is the next word,
\* o the value of outfile so far, inp the first non-option word met (0: none
\* yet; permutation moves non-options behind the options, keeping their
\* order, so argv[optind] is the first of them), e the number of messages
\* getopt itself printed.  With optstring "o:" and these long options
\* getopt_long returns only 0, 'o', '?' or -1, so the default: branch of the
\* switch (the "Invalid option" throw) is never taken.
RECURSIVE Getopt(_, _, _, _, _)
Getopt(av, i, o, inp, e) ==
  IF i > Len(av)
    THEN [help |-> FALSE, outfile |-> o, input |-> inp, errs |-> e]
  ELSE IF av[i] = "--"
    THEN [help |-> FALSE, outfile |-> o,
          input |-> IF inp # 0 THEN inp ELSE IF i < Len(av) THEN i + 1 ELSE 0,
          errs |-> e]
  ELSE IF av[i] = "--help"
    THEN IF IsHelp("help")
           THEN [help |-> TRUE, outfile |-> o, input |-> inp, errs |-> e]
           ELSE Getopt(av, i + 1, o, inp, e)
  ELSE IF av[i] = "-o"
    THEN IF i < Len(av)
           THEN Getopt(av, i + 2, av[i + 1], inp, e)
           ELSE Getopt(av, i + 1, o, inp, e + 1)
  ELSE IF av[i] = "-x"
    THEN Getopt(av, i + 1, o, inp, e + 1)
  ELSE Getopt(av, i + 1, o, IF inp = 0 THEN i ELSE inp, e)

\* ------------------------------------------------------------ UTF-8, iconv
IsCont(b) == b >= 128 /\ b <= 191

\* length of the sequence a lead byte announces; 0: not a lead byte
SeqLen(b) ==
  IF b < 128 THEN 1
  ELSE IF b >= 194 /\ b <= 223 THEN 2
  ELSE IF b >= 224 /\ b <= 239 THEN 3
  ELSE IF b >= 240 /\ b <= 244 THEN 4
  ELSE 0

CodePoint(c) ==
  IF Len(c) = 1 THEN c[1]
  ELSE IF Len(c) = 2 THEN (c[1] - 192) * 64 + (c[2] - 128)
  ELSE IF Len(c) = 3 THEN (c[1] - 224) * 4096 + (c[2] - 128) * 64 + (c[3] - 128)
  ELSE (c[1] - 240) * 262144 + (c[2] - 128) * 4096 + (c[3] - 128) * 64 + (c[4] - 128)

\* a complete, shortest-form sequence of a Unicode scalar value
WellFormed(c) ==
  /\ \A k \in 2..Len(c) : IsCont(c[k])
  /\ Len(c) = 3 => CodePoint(c) >= 2048 /\ ~(CodePoint(c) >= 55296 /\ CodePoint(c) <= 57343)
  /\ Len(c) = 4 => CodePoint(c) >= 65536 /\ CodePoint(c) <= 1114111

\* one wchar_t in memory
WCharBytes(cp) == [k \in 1..WCharSize |-> (cp \div Pow(256, k - 1)) % 256]

\* iconv(conv, &pIn, &sIn, &pOut, &sOut) on a fresh UTF-8 -> WCHAR_T
\* descriptor: converts character by character and stops at the first
\* malformed sequence (EILSEQ), at a sequence the input ends in the middle of
\* (EINVAL) or when the output space is used up (E2BIG).  Yields the bytes
\* stored at out and the input bytes left (sIn).
RECURSIVE Iconv(_, _, _, _)
Iconv(s, i, acc, cap) ==
  IF i > Len(s) THEN [out |-> acc, sIn |-> 0]
  ELSE LET n == SeqLen(s[i]) IN
    IF \/ n = 0
       \/ i + n - 1 > Len(s)
       \/ ~WellFormed(SubSeq(s, i, i + n - 1))
       \/ Len(acc) + WCharSize > cap
      THEN [out |-> acc, sIn |-> Len(s) - i + 1]
      ELSE Iconv(s, i + n, acc \o WCharBytes(CodePoint(SubSeq(s, i, i + n - 1))), cap)

\* -------------------------------------------------- expressions of main()
\* !outfile.empty()
WantsOutFileAlways(f) == TRUE
WantsOutFile(f) == f # ""

\* (rv = read(...)) > 0
LoopContinuesOnZero(r) == r >= 0
LoopContinues(r) == r > 0

\* size_t sIn = rv
InLenShort(r) == r - 1
InLen(r) == r

\* sOut = rv*sizeof(wchar_t)
OutCapacity(r) == r * WCharSize

\* to_write = rv*sizeof(wchar_t) - sOut
ToWrite(r, sOut) == r * WCharSize - sOut

\* to_write != write(out_fd, out, to_write)
WriteFailedNever(n, tw) == FALSE
WriteFailed(n, tw) == tw # n

\* total_cnv += to_write
AddTotalChars(total, tw) == total + (tw \div WCharSize)
AddTotal(total, tw) == total + tw

\* if(chmod(...))
ChmodFailedNever(r) == FALSE
ChmodFailed(r) == r # 0

\* if(std::rename(...))
RenameFailed(r) == r # 0

\* --------------------------------------------------------------- state
VARIABLES
  argv,       \* the command line still to be parsed
  pc,         \* the statement main() is at
  outfile,    \* the global std::string outfile
  in_path,    \* argv[optind] when optind < argc, else "" (stdin)
  in_fd,      \* "stdin" | "file"
  out_fd,     \* "stdout" | "tmp" | "closed"
  tmpfile,    \* TRUE once tmpfile holds the name mkstemp made
  target,     \* the file at the -o path
  tmp,        \* the file under the temporary name
  stdout,     \* bytes written to STDOUT_FILENO
  stderr,     \* lines printed on std::cerr
  rv,         \* last result of read
  buf,        \* the bytes the last read stored
  out,        \* the bytes iconv stored in out[]
  to_write,
  total_cnv,
  \* history, not read by the program
  prior,      \* what was at the -o path when the run started
  helpTok,    \* "--help" was a word of the command line
  helpOpt,    \* ... in a place where getopt_long takes it as an option
  inputRead,  \* all bytes the reads delivered, in order
  cuts,       \* the stream offsets at which a read ended
  produced,   \* all bytes iconv produced, in order
  firstRv,    \* <<result of the first read>>, <<>> before it
  readErr,    \* a read returned -1
  convLeft,   \* an iconv call left input unconverted
  trace,      \* the calls that failed and the file operations outside the
              \* loop, in the order they were made
  fail        \* the failure that ended the run, "none" if none

vars == <<argv, pc, outfile, in_path, in_fd, out_fd, tmpfile, target, tmp,
          stdout, stderr, rv, buf, out, to_write, total_cnv, prior, helpTok,
          helpOpt, inputRead, cuts, produced, firstRv, readErr, convLeft,
          trace, fail>>

progvars == <<outfile, in_path, in_fd, out_fd, tmpfile, target, tmp, stdout,
              rv, buf, out, to_write, total_cnv>>
histvars == <<prior, helpTok, helpOpt, inputRead, cuts, produced, firstRv,
              readErr, convLeft>>

\* "--help" stands where getopt_long reads it as an option: before any "--"
\* and not as the argument of a -o
RECURSIVE HelpIsOption(_, _)
HelpIsOption(av, i) ==
  IF i > Len(av) THEN FALSE
  ELSE IF av[i] = "--" THEN FALSE
  ELSE IF av[i] = "--help" THEN TRUE
  ELSE IF av[i] = "-o" THEN HelpIsOption(av, i + 2)
  ELSE HelpIsOption(av, i + 1)

Init ==
  /\ argv \in SeqsUpTo(Tokens, MaxArgs)
  /\ pc = "parse"
  /\ outfile = ""
  /\ in_path = ""
  /\ in_fd = "stdin"
  /\ out_fd = "stdout"
  /\ tmpfile = FALSE
  /\ prior \in {NoFile, OrigFile}
  /\ target = prior
  /\ tmp = NoFile
  /\ stdout = <<>>
  /\ stderr = <<>>
  /\ rv = -1
  /\ buf = <<>>
  /\ out = <<>>
  /\ to_write = 0
  /\ total_cnv = 0
  /\ helpTok = FALSE
  /\ helpOpt = FALSE
  /\ inputRead = <<>>
  /\ cuts = {}
  /\ produced = <<>>
  /\ firstRv = <<>>
  /\ readErr = FALSE
  /\ convLeft = FALSE
  /\ trace = <<>>
  /\ fail = "none"

\* throw std::runtime_error(what), caught at main.cpp:150
Throw(what) ==
  /\ stderr' = Append(stderr, [kind |-> "Exception", what |-> what])
  /\ fail' = what
  /\ pc' = "exited"

GetoptMsgs(n) == [k \in 1..n |-> [kind |-> "getopt"]]

\* parse_args(argc, argv, argv[0], VERSION).  On --help it prints the usage
\* and calls std::exit(0).  Afterwards main reads outfile and argv[optind]
\* only, so these are what the state keeps of the command line.
ParseArgs ==
  /\ pc = "parse"
  /\ LET g == Getopt(argv, 1, "", 0, 0) IN
       /\ outfile' = g.outfile
       /\ helpTok' = ("--help" \in Range(argv))
       /\ helpOpt' = HelpIsOption(argv, 1)
       /\ argv' = <<>>
       /\ IF g.help
            THEN /\ stderr' = GetoptMsgs(g.errs) \o <<[kind |-> "Usage"]>>
                 /\ pc' = "exited"
                 /\ in_path' = ""
            ELSE /\ stderr' = GetoptMsgs(g.errs)
                 /\ pc' = "open"
                 /\ in_path' = IF g.input # 0 THEN argv[g.input] ELSE ""
  /\ UNCHANGED <<in_fd, out_fd, tmpfile, target, tmp, stdout, rv, buf, out,
                 to_write, total_cnv, prior, inputRead, cuts, produced,
                 firstRv, readErr, convLeft, trace, fail>>

\* if(optind < argc) in_fd = open(argv[optind], O_RDONLY)
OpenInput ==
  /\ pc = "open"
  /\ \/ /\ in_path = ""
        /\ pc' = "mktemp"
        /\ UNCHANGED <<in_fd, stderr, fail, trace>>
     \/ /\ in_path # ""
        /\ in_fd' = "file"
        /\ trace' = Append(trace, "open")
        /\ pc' = "mktemp"
        /\ UNCHANGED <<stderr, fail>>
     \/ /\ in_path # ""
        /\ trace' = Append(trace, "open_failed")
        /\ Throw("Can't open file as input")
        /\ UNCHANGED in_fd
  /\ UNCHANGED <<argv, outfile, in_path, out_fd, tmpfile, target, tmp, stdout,
                 rv, buf, out, to_write, total_cnv>>
  /\ UNCHANGED histvars

\* if(!outfile.empty()) out_fd = mkstemp(buf)
MakeTemp ==
  /\ pc = "mktemp"
  /\ \/ /\ ~WantsOutFile(outfile)
        /\ pc' = "read"
        /\ UNCHANGED <<out_fd, tmpfile, tmp, trace, fail>>
     \/ /\ WantsOutFile(outfile)
        /\ tmp' = FreshTemp
        /\ out_fd' = "tmp"
        /\ tmpfile' = TRUE
        /\ trace' = Append(trace, "mkstemp")
        /\ pc' = "read"
        /\ UNCHANGED fail
     \/ /\ WantsOutFile(outfile)
        \* return false: main returns without a word
        /\ trace' = Append(trace, "mkstemp_failed")
        /\ fail' = "mkstemp"
        /\ pc' = "exited"
        /\ UNCHANGED <<out_fd, tmpfile, tmp>>
  /\ UNCHANGED <<argv, outfile, in_path, in_fd, target, stdout, stderr, rv,
                 buf, out, to_write, total_cnv>>
  /\ UNCHANGED histvars

AfterLoop == IF WantsOutFile(outfile) THEN "close" ELSE "report"

\* while((rv = read(in_fd, buf, buf_sz-1)) > 0)
Read ==
  /\ pc = "read"
  /\ \E r \in -1..Min(ChunkMax, MaxLen - Len(inputRead)) :
       \E data \in [1..(IF r > 0 THEN r ELSE 0) -> Bytes] :
         /\ rv' = r
         /\ buf' = IF r > 0 THEN data ELSE buf
         /\ inputRead' = inputRead \o data
         /\ cuts' = IF r > 0 THEN cuts \cup {Len(inputRead) + r} ELSE cuts
         /\ firstRv' = IF firstRv = <<>> THEN <<r>> ELSE firstRv
         /\ readErr' = (readErr \/ r < 0)
         /\ pc' = IF LoopContinues(r) THEN "conv" ELSE AfterLoop
  /\ UNCHANGED <<argv, outfile, in_path, in_fd, out_fd, tmpfile, target, tmp,
                 stdout, stderr, out, to_write, total_cnv, prior, helpTok,
                 helpOpt, produced, convLeft, trace, fail>>

\* iconv_open, iconv, iconv_close and the computation of to_write
Convert ==
  /\ pc = "conv"
  /\ \/ /\ trace' = Append(trace, "iconv_open_failed")
        /\ Throw("This system can't convert from UTF-8 to WCHAR_T")
        /\ UNCHANGED <<out, to_write, produced, convLeft>>
     \/ LET sIn == InLen(rv)
            c   == Iconv(SubSeq(buf, 1, sIn), 1, <<>>, OutCapacity(rv))
            sOut == OutCapacity(rv) - Len(c.out)
        IN /\ out' = c.out
           /\ to_write' = ToWrite(rv, sOut)
           /\ produced' = produced \o c.out
           /\ convLeft' = (convLeft \/ c.sIn > 0)
           /\ pc' = "write"
           /\ UNCHANGED <<stderr, fail, trace>>
  /\ UNCHANGED <<argv, outfile, in_path, in_fd, out_fd, tmpfile, target, tmp,
                 stdout, rv, buf, total_cnv, prior, helpTok, helpOpt,
                 inputRead, cuts, firstRv, readErr>>

\* the file behind out_fd after write() stored the first n bytes of out
Stored(f, n) == [f EXCEPT !.content = @ \o SubSeq(out, 1, n)]

\* write(out_fd, out, to_write), the test of its result, total_cnv += to_write
Write ==
  /\ pc = "write"
  /\ \E n \in -1..to_write :
       /\ IF out_fd = "tmp"
            THEN /\ tmp' = IF n > 0 THEN Stored(tmp, n) ELSE tmp
                 /\ UNCHANGED stdout
            ELSE /\ stdout' = IF n > 0 THEN stdout \o SubSeq(out, 1, n) ELSE stdout
                 /\ UNCHANGED tmp
       /\ trace' = IF n # to_write THEN Append(trace, "write_short") ELSE trace
       /\ IF WriteFailed(n, to_write)
            THEN /\ Throw("Couldn't write the required bytes to stdout")
                 /\ UNCHANGED total_cnv
            ELSE /\ total_cnv' = AddTotal(total_cnv, to_write)
                 /\ pc' = "read"
                 /\ UNCHANGED <<stderr, fail>>
  /\ UNCHANGED <<argv, outfile, in_path, in_fd, out_fd, tmpfile, target, rv,
                 buf, out, to_write>>
  /\ UNCHANGED histvars

\* close(out_fd)
Close ==
  /\ pc = "close"
  /\ out_fd' = "closed"
  /\ trace' = Append(trace, "close")
  /\ pc' = "chmod"
  /\ UNCHANGED <<argv, outfile, in_path, in_fd, tmpfile, target, tmp, stdout,
                 stderr, rv, buf, out, to_write, total_cnv, fail>>
  /\ UNCHANGED histvars

\* if(chmod(tmpfile.c_str(), S_IRWXU|S_IRGRP|S_IROTH)) throw
Chmod ==
  /\ pc = "chmod"
  /\ \E r \in {0, -1} :
       /\ tmp' = IF r = 0 /\ tmp.exists THEN [tmp EXCEPT !.mode = PublishMode] ELSE tmp
       /\ trace' = Append(trace, IF r = 0 THEN "chmod" ELSE "chmod_failed")
       /\ IF ChmodFailed(r)
            THEN Throw("Can't change permissions of output file")
            ELSE /\ pc' = "rename"
                 /\ UNCHANGED <<stderr, fail>>
  /\ UNCHANGED <<argv, outfile, in_path, in_fd, out_fd, tmpfile, target,
                 stdout, rv, buf, out, to_write, total_cnv>>
  /\ UNCHANGED histvars

\* if(std::rename(tmpfile.c_str(), outfile.c_str())) throw
Rename ==
  /\ pc = "rename"
  /\ \E r \in {0, -1} :
       /\ IF r = 0
            THEN /\ target' = tmp
                 /\ tmp' = NoFile
            ELSE UNCHANGED <<target, tmp>>
       /\ trace' = Append(trace, IF r = 0 THEN "rename" ELSE "rename_failed")
       /\ IF RenameFailed(r)
            THEN Throw("Can't swap temp file to output file")
            ELSE /\ pc' = "report"
                 /\ UNCHANGED <<stderr, fail>>
  /\ UNCHANGED <<argv, outfile, in_path, in_fd, out_fd, tmpfile, stdout, rv,
                 buf, out, to_write, total_cnv>>
  /\ UNCHANGED histvars

\* std::cerr << "Written: " << total_cnv << " bytes"
Report ==
  /\ pc = "report"
  /\ stderr' = Append(stderr, [kind |-> "Written", bytes |-> total_cnv])
  /\ pc' = "exited"
  /\ UNCHANGED <<argv, trace, fail>>
  /\ UNCHANGED progvars
  /\ UNCHANGED histvars

Next ==
  \/ ParseArgs
  \/ OpenInput
  \/ MakeTemp
  \/ Read
  \/ Convert
  \/ Write
  \/ Close
  \/ Chmod
  \/ Rename
  \/ Report

Spec == Init /\ [][Next]_vars

\* ------------------------------------------------- vocabulary of the claims
Failed(ev) == ev \in Range(trace)

Printed(kind) == \E i \in 1..Len(stderr) : stderr[i].kind = kind

LastLine(kind) == Len(stderr) > 0 /\ stderr[Len(stderr)].kind = kind

\* the loop was left because a read returned 0
AtEof == rv = 0

\* what the run has written to its output so far
Output ==
  IF outfile = "" THEN stdout
  ELSE IF tmp.exists THEN tmp.content
  ELSE target.content

OwnerRwxGroupROtherR == {"S_IRUSR", "S_IWUSR", "S_IXUSR", "S_IRGRP", "S_IROTH"}

\* the offsets of s at which a character ends, when s is well-formed UTF-8
\* from offset i on; {-1} is thrown in when it is not
RECURSIVE CharEnds(_, _)
CharEnds(s, i) ==
  IF i > Len(s) THEN {}
  ELSE LET n == SeqLen(s[i]) IN
    IF n = 0 \/ i + n - 1 > Len(s) THEN {-1}
    ELSE IF ~WellFormed(SubSeq(s, i, i + n - 1)) THEN {-1}
    ELSE {i + n - 1} \cup CharEnds(s, i + n)

ValidUtf8(s) == -1 \notin CharEnds(s, 1)

IsAscii(s) == \A i \in 1..Len(s) : s[i] < 128

\* the inverse tool: wchar_t values back to UTF-8
WCharValue(b) ==
  b[1] + 256 * b[2] + 65536 * b[3] + 16777216 * b[4]

Utf8Encode(cp) ==
  IF cp < 128 THEN <<cp>>
  ELSE IF cp < 2048 THEN <<192 + (cp \div 64), 128 + (cp % 64)>>
  ELSE IF cp < 65536
    THEN <<224 + (cp \div 4096), 128 + ((cp \div 64) % 64), 128 + (cp % 64)>>
  ELSE <<240 + (cp \div 262144), 128 + ((cp \div 4096) % 64),
         128 + ((cp \div 64) % 64), 128 + (cp % 64)>>

RECURSIVE WideToUtf8(_)
WideToUtf8(w) ==
  IF Len(w) < 4 THEN <<>>
  ELSE Utf8Encode(WCharValue(SubSeq(w, 1, 4))) \o WideToUtf8(SubSeq(w, 5, Len(w)))

\* ------------------------------------------------------------------ C1
\* C1: with a non-empty -o path, in every state of the run the file at the
\* target path is what it was before the run, or it is the complete output
\* of the run; converted bytes never go to stdout; and the target path
\* changes only in the step that is the successful rename.
C1_TargetPriorOrComplete ==
  /\ [](/\ \/ target = prior
           \/ /\ outfile # ""
              /\ pc \in {"report", "exited"}
              /\ target.exists
              /\ target.content = produced
        /\ outfile # "" => stdout = <<>>)
  /\ [][target' # target =>
          pc = "rename" /\ trace' = Append(trace, "rename") /\ target' = tmp]_vars

C1_Witness ==
  /\ outfile # ""
  /\ pc = "exited"
  /\ prior = OrigFile
  /\ target # prior
  /\ Cardinality(cuts) > 1
  /\ Len(target.content) = Len(inputRead) * WCharSize

\* ------------------------------------------------------------------ C2
\* C2: with -o, once the temporary file exists, a short write, a failed
\* iconv_open or a failed chmod means the rename is never executed and the
\* target path keeps its state from before the run.
C2_FailureLeavesTarget ==
  (/\ outfile # ""
   /\ Failed("mkstemp")
   /\ Failed("write_short") \/ Failed("iconv_open_failed") \/ Failed("chmod_failed"))
  => /\ ~Failed("rename")
     /\ ~Failed("rename_failed")
     /\ target = prior

C2_Witness ==
  /\ outfile # ""
  /\ Failed("write_short")
  /\ pc = "exited"
  /\ prior = OrigFile
  /\ target = OrigFile
  /\ Len(tmp.content) > WCharSize

\* ------------------------------------------------------------------ C3
\* C3: whenever the rename onto the target was performed, the input had been
\* read to end-of-stream and every byte of every chunk was converted: no read
\* had returned an error and no iconv call had left input behind.
C3_RenameOnlyAfterFullConversion ==
  (Failed("rename") \/ Failed("rename_failed"))
  => /\ AtEof
     /\ ~readErr
     /\ ~convLeft

\* ------------------------------------------------------------------ C4
HelpOutcome ==
  /\ pc = "exited"
  /\ LastLine("Usage")
  /\ in_fd = "stdin"
  /\ ~tmpfile
  /\ tmp = NoFile
  /\ target = prior
  /\ trace = <<>>
  /\ firstRv = <<>>
  /\ produced = <<>>
  /\ stdout = <<>>

\* C4 as stated: a command line that holds the word --help anywhere ends in
\* the usage text with no file opened, no temporary file, nothing read,
\* converted or written, and the target untouched.
C4_AnyHelpToken ==
  (pc # "parse" /\ helpTok) => HelpOutcome

\* C4 as amended: the same for a command line in which --help stands where
\* getopt_long reads it as an option (not after "--", not as the argument
\* of -o).
C4_HelpOption ==
  (pc # "parse" /\ helpOpt) => HelpOutcome

C4_Witness ==
  /\ helpOpt
  /\ pc = "exited"
  /\ outfile # ""
  /\ LastLine("Usage")

\* ------------------------------------------------------------------ C5
RoundTrips == WideToUtf8(Output) = inputRead

\* C5 as stated: for well-formed UTF-8 input in which no character straddles
\* a multiple of the read size, however the reads split it, converting the
\* output back gives the input.
C5_RoundTripAnySplit ==
  (/\ AtEof
   /\ ValidUtf8(inputRead)
   /\ \A k \in 1..Len(inputRead) :
        k % ChunkMax = 0 => k \in CharEnds(inputRead, 1))
  => RoundTrips

\* C5 as amended: ... in which no character straddles an offset at which a
\* read ended ...
C5_RoundTripWholeChars ==
  (/\ AtEof
   /\ ValidUtf8(inputRead)
   /\ cuts \subseteq CharEnds(inputRead, 1))
  => RoundTrips

C5_Witness ==
  /\ AtEof
  /\ ValidUtf8(inputRead)
  /\ cuts \subseteq CharEnds(inputRead, 1)
  /\ Cardinality(cuts) > 1
  /\ ~IsAscii(inputRead)
  /\ RoundTrips

\* ------------------------------------------------------------------ C6
EarlyEnd ==
  \/ Failed("open_failed")
  \/ Failed("mkstemp_failed")
  \/ Failed("iconv_open_failed")
  \/ Failed("write_short")
  \/ Failed("chmod_failed")
  \/ Failed("rename_failed")

\* C6: a run that a failure ended has printed an "Exception: " line (or
\* "Unknown exception") as its last line before exiting, and the "Written"
\* line appears only in runs without a failure.
C6_EveryFailureReported ==
  /\ (pc = "exited" /\ EarlyEnd) => LastLine("Exception")
  /\ Printed("Written") => ~EarlyEnd

\* ------------------------------------------------------------------ C7
BodyNeverRan ==
  /\ pc \notin {"conv", "write"}
  /\ cuts = {}
  /\ produced = <<>>
  /\ total_cnv = 0

EmptyPublished ==
  /\ LastLine("Written")
  /\ stderr[Len(stderr)].bytes = 0
  /\ outfile # "" =>
       /\ Failed("close") /\ Failed("chmod") /\ Failed("rename")
       /\ target.exists
       /\ target.content = <<>>

C8_AsciiTotal ==
  (AtEof /\ IsAscii(inputRead))
  => /\ total_cnv = Len(inputRead) * WCharSize
     /\ total_cnv = Len(Output)
     /\ LastLine("Written") => stderr[Len(stderr)].bytes = Len(inputRead) * WCharSize

C8_Witness ==
  /\ AtEof
  /\ IsAscii(inputRead)
  /\ Cardinality(cuts) > 1
  /\ LastLine("Written")
  /\ stderr[Len(stderr)].bytes = WCharSize * Len(inputRead)

\* ------------------------------------------------------------------ C9
\* C9: close comes before chmod, chmod before rename, rename is attempted
\* only after a successful chmod; and a run with -o that completes normally
\* leaves the target in place with mode owner rwx, group r, other r, and
\* nothing under the temporary name.
C9_PublishOrder ==
  /\ \A i \in 1..Len(trace) :
       /\ trace[i] \in {"chmod", "chmod_failed"} => (i > 1 /\ trace[i - 1] = "close")
       /\ trace[i] \in {"rename", "rename_failed"} =>
            (i > 2 /\ trace[i - 1] = "chmod" /\ trace[i - 2] = "close")
  /\ (outfile # "" /\ Printed("Written")) =>
       /\ target.exists
       /\ target.mode = OwnerRwxGroupROtherR
       /\ ~tmp.exists

C9_Witness ==
  /\ outfile # ""
  /\ Printed("Written")
  /\ pc = "exited"
  /\ target.mode = OwnerRwxGroupROtherR
  /\ Len(target.content) > 0

\* ------------------------------------------------------------------ C10
\* C10: the temporary file is created at most once, only with a non-empty -o
\* path and never after a failed open; the program never removes it, so a
\* file is under the temporary name exactly when it was created and the
\* rename has not succeeded.
C10_TempFileLifetime ==
  /\ Cardinality({i \in 1..Len(trace) : trace[i] = "mkstemp"}) <= 1
  /\ Failed("mkstemp") => (outfile # "" /\ ~Failed("open_failed"))
  /\ (outfile = "" \/ Failed("open_failed")) => ~tmp.exists
  /\ tmp.exists <=> (Failed("mkstemp") /\ ~Failed("rename"))

C10_Witness ==
  /\ pc = "exited"
  /\ tmp.exists
  /\ Failed("mkstemp")
  /\ Failed("open")
  /\ Failed("chmod_failed")
====
